---------------------------- MODULE Spec2Model ----------------------------
(***************************************************************************)
(* A model of the Spanish YouTube channel e-mail finder (src/app.py):      *)
(*   - the contact extractor extract_contacts_from_text, character by      *)
(*     character (both regular expressions, the lower-casing, the          *)
(*     substring tests of the elif chain and of looks_like_website);       *)
(*   - the run: run -> search_youtube_api -> get_channel_details ->        *)
(*     scrape_channel_page, then the fallback and save_to_csv, one step    *)
(*     per blocking call (HTTP request or sleep);                          *)
(*   - save_to_csv on lists of records, the rows it writes;                *)
(*   - the post-processing tools on the rows of a CSV file: clean_csv      *)
(*     (src/process_csv.py), src/remove_other_links_simple.py and          *)
(*     filter_csv (src/filter_emails.py).                                  *)
(* Text is a TLA+ string; Len, SubSeq and \o act on it as on a sequence    *)
(* of characters.                                                          *)
(***************************************************************************)
EXTENDS Integers, Sequences, FiniteSets, TLC

(***************************************************************************)
(* Characters and strings                                                  *)
(***************************************************************************)
UpperLetters ==
  {"A","B","C","D","E","F","G","H","I","J","K","L","M",
   "N","O","P","Q","R","S","T","U","V","W","X","Y","Z"}

LowerLetters ==
  {"a","b","c","d","e","f","g","h","i","j","k","l","m",
   "n","o","p","q","r","s","t","u","v","w","x","y","z"}

Digits == {"0","1","2","3","4","5","6","7","8","9"}

\* str.lower() on one character
ToLowerTable ==
  [c \in UpperLetters |->
     CASE c = "A" -> "a" [] c = "B" -> "b" [] c = "C" -> "c" [] c = "D" -> "d"
       [] c = "E" -> "e" [] c = "F" -> "f" [] c = "G" -> "g" [] c = "H" -> "h"
       [] c = "I" -> "i" [] c = "J" -> "j" [] c = "K" -> "k" [] c = "L" -> "l"
       [] c = "M" -> "m" [] c = "N" -> "n" [] c = "O" -> "o" [] c = "P" -> "p"
       [] c = "Q" -> "q" [] c = "R" -> "r" [] c = "S" -> "s" [] c = "T" -> "t"
       [] c = "U" -> "u" [] c = "V" -> "v" [] c = "W" -> "w" [] c = "X" -> "x"
       [] c = "Y" -> "y" [] c = "Z" -> "z"]

\* the character of s at position i (1-based)
Ch(s, i) == SubSeq(s, i, i)

\* s[i..j] lower-cased, by halves (the recursion stays shallow on long text)
RECURSIVE LowerRange(_, _, _)
LowerRange(s, i, j) ==
  IF i > j THEN ""
  ELSE IF i = j
    THEN LET c == Ch(s, i) IN IF c \in UpperLetters THEN ToLowerTable[c] ELSE c
  ELSE LET m == (i + j) \div 2
       IN LowerRange(s, i, m) \o LowerRange(s, m + 1, j)

\* str.lower()
Lower(s) == LowerRange(s, 1, Len(s))

\* Python's  sub in s
Contains(s, sub) ==
  \E i \in 1..(Len(s) - Len(sub) + 1) : SubSeq(s, i, i + Len(sub) - 1) = sub

\* Python's  s.startswith(p)
StartsWith(s, p) == Len(s) >= Len(p) /\ SubSeq(s, 1, Len(p)) = p

\* s[i:] starts with p (i is 1-based)
StartsAt(s, i, p) == i + Len(p) - 1 <= Len(s) /\ SubSeq(s, i, i + Len(p) - 1) = p

\* the first position >= i whose character is not in cls (Len(s)+1 if none):
\* the end of the greedy run  [cls]*  started at i
RunEnd(s, i, cls) ==
  CHOOSE j \in i..(Len(s) + 1) :
    /\ j = Len(s) + 1 \/ Ch(s, j) \notin cls
    /\ \A k \in i..(j - 1) : Ch(s, k) \in cls

(***************************************************************************)
(* email_pattern  \b[A-Za-z0-9._%+-]+@[A-Za-z0-9.-]+\.[A-Z|a-z]{2,}\b      *)
(***************************************************************************)
WordChars   == UpperLetters \cup LowerLetters \cup Digits \cup {"_"}
LocalChars  == UpperLetters \cup LowerLetters \cup Digits \cup {".", "_", "%", "+", "-"}
DomainChars == UpperLetters \cup LowerLetters \cup Digits \cup {".", "-"}
TldChars    == UpperLetters \cup LowerLetters \cup {"|"}

\* \b just before position i
WordBoundary(s, i) ==
  (i > 1 /\ Ch(s, i - 1) \in WordChars) # (i <= Len(s) /\ Ch(s, i) \in WordChars)

\* The position just after the match of email_pattern that starts at i, or 0
\* when the pattern does not match at i.  The local part is the greedy run up
\* to "@".  The domain run is greedy and backtracks: the last "." of the run
\* that is followed by at least two tld characters ending at a \b is taken,
\* and with it the longest such tld.
EmailMatchEnd(s, i) ==
  LET at == RunEnd(s, i, LocalChars)
  IN IF ~WordBoundary(s, i) \/ at = i \/ at > Len(s) \/ Ch(s, at) # "@" THEN 0
     ELSE LET e == RunEnd(s, at + 1, DomainChars)
              dots == { d \in (at + 2)..(e - 1) :
                          /\ Ch(s, d) = "."
                          /\ \E f \in (d + 3)..RunEnd(s, d + 1, TldChars) :
                                WordBoundary(s, f) }
          IN IF dots = {} THEN 0
             ELSE LET d == CHOOSE x \in dots : \A y \in dots : y <= x
                      fs == { f \in (d + 3)..RunEnd(s, d + 1, TldChars) :
                                WordBoundary(s, f) }
                  IN CHOOSE f \in fs : \A g \in fs : g <= f

\* re.findall(email_pattern, s[i:]): the matches, left to right, not
\* overlapping: the scan resumes just after each match
RECURSIVE FindEmailsFrom(_, _)
FindEmailsFrom(s, i) ==
  IF ~(\E j \in i..Len(s) : EmailMatchEnd(s, j) # 0) THEN <<>>
  ELSE LET j == CHOOSE j \in i..Len(s) :
                  /\ EmailMatchEnd(s, j) # 0
                  /\ \A k \in i..(j - 1) : EmailMatchEnd(s, k) = 0
           e == EmailMatchEnd(s, j)
       IN <<SubSeq(s, j, e - 1)>> \o FindEmailsFrom(s, e)

FindEmails(s) == FindEmailsFrom(s, 1)

(***************************************************************************)
(* url_pattern  https?://(?:www\.)?([^\s<>"]+)                              *)
(***************************************************************************)
\* the characters excluded by [^\s<>"]
UrlStopChars == {" ", "\t", "\n", "\r", "\f", "<", ">", "\""}

\* the end of the greedy run of [^\s<>"] started at i
UrlRunEnd(s, i) ==
  CHOOSE j \in i..(Len(s) + 1) :
    /\ j = Len(s) + 1 \/ Ch(s, j) \in UrlStopChars
    /\ \A k \in i..(j - 1) : Ch(s, k) \notin UrlStopChars

\* <<start of group 1, position after the match>> of url_pattern matched at
\* i, or <<0, 0>>.  (?:www\.)? is greedy; it is given up only when nothing
\* would be left for the group.
UrlMatch(s, i) ==
  LET h == IF StartsAt(s, i, "https://") THEN i + 8
           ELSE IF StartsAt(s, i, "http://") THEN i + 7
           ELSE 0
  IN IF h = 0 THEN <<0, 0>>
     ELSE LET g == IF StartsAt(s, h, "www.") /\ UrlRunEnd(s, h + 4) > h + 4
                   THEN h + 4 ELSE h
              e == UrlRunEnd(s, g)
          IN IF e > g THEN <<g, e>> ELSE <<0, 0>>

\* re.findall(url_pattern, s[i:]): group 1 of every match, left to right
RECURSIVE FindUrlsFrom(_, _)
FindUrlsFrom(s, i) ==
  IF ~(\E j \in i..Len(s) : UrlMatch(s, j)[2] # 0) THEN <<>>
  ELSE LET j == CHOOSE j \in i..Len(s) :
                  /\ UrlMatch(s, j)[2] # 0
                  /\ \A k \in i..(j - 1) : UrlMatch(s, k)[2] = 0
           m == UrlMatch(s, j)
       IN <<SubSeq(s, m[1], m[2] - 1)>> \o FindUrlsFrom(s, m[2])

FindUrls(s) == FindUrlsFrom(s, 1)

(***************************************************************************)
(* The contact record and extract_contacts_from_text                       *)
(***************************************************************************)
\* the record get_channel_details creates before any extraction
NewChannelData(name, channel_id, handle, subs, description) ==
  [channel_name     |-> name,
   channel_url      |-> "https://www.youtube.com/channel/" \o channel_id,
   handle           |-> handle,
   subscriber_count |-> subs,
   description      |-> description,
   emails           |-> {},
   instagram        |-> "",
   twitter          |-> "",
   facebook         |-> "",
   tiktok           |-> "",
   twitch           |-> "",
   discord          |-> "",
   linkedin         |-> "",
   website          |-> ""]

\* the substrings that mark a matched address as a false positive
FalsePositives == {"example.com", "yourdomain", "test"}

\* the test of line 188 on one match: some marker is in email.lower()
IsFalsePositive(email) == \E x \in FalsePositives : Contains(Lower(email), x)

\* AddEmails adding the match as found, not lower-cased
AddEmails_NoLower(channel_data, emails) ==
  [channel_data EXCEPT
     !.emails = @ \cup { emails[i] :
                           i \in { k \in 1..Len(emails) : ~IsFalsePositive(emails[k]) } }]

\* for email in emails: if not <false positive>: emails.add(email.lower())
\* (the adds to the set commute, so the loop is given by its result)
AddEmails(channel_data, emails) ==
  [channel_data EXCEPT
     !.emails = @ \cup { Lower(emails[i]) :
                           i \in { k \in 1..Len(emails) : ~IsFalsePositive(emails[k]) } }]

\* common_domains of looks_like_website
CommonDomains ==
  {"instagram", "twitter", "facebook", "tiktok", "twitch",
   "discord", "linkedin", "youtube", "youtu.be"}

looks_like_website(url) ==
  ~(\E domain \in CommonDomains : Contains(Lower(url), domain))

\* f"https://{url}" if not url.startswith('http') else url
FullUrl(url) == IF ~StartsWith(url, "http") THEN "https://" \o url ELSE url

\* the platforms excluded from the website branch
NotWebsite == {"youtube.com", "youtu.be", "google.com"}

\* The body of  for url in urls:  for one match: the if/elif chain, with
\* Python's precedence (and binds tighter than or) in the twitter test.
ClassifyUrl(channel_data, url) ==
  LET url_lower == Lower(url)
  IN IF Contains(url_lower, "instagram.com") /\ channel_data.instagram = ""
       THEN [channel_data EXCEPT !.instagram = FullUrl(url)]
     ELSE IF \/ Contains(url_lower, "twitter.com")
             \/ (Contains(url_lower, "x.com") /\ channel_data.twitter = "")
       THEN [channel_data EXCEPT !.twitter = FullUrl(url)]
     ELSE IF Contains(url_lower, "facebook.com") /\ channel_data.facebook = ""
       THEN [channel_data EXCEPT !.facebook = FullUrl(url)]
     ELSE IF Contains(url_lower, "tiktok.com") /\ channel_data.tiktok = ""
       THEN [channel_data EXCEPT !.tiktok = FullUrl(url)]
     ELSE IF Contains(url_lower, "twitch.tv") /\ channel_data.twitch = ""
       THEN [channel_data EXCEPT !.twitch = FullUrl(url)]
     ELSE IF Contains(url_lower, "discord") /\ channel_data.discord = ""
       THEN [channel_data EXCEPT !.discord = FullUrl(url)]
     ELSE IF Contains(url_lower, "linkedin.com") /\ channel_data.linkedin = ""
       THEN [channel_data EXCEPT !.linkedin = FullUrl(url)]
     ELSE IF ~(\E platform \in NotWebsite : Contains(url_lower, platform))
       THEN IF channel_data.website = "" /\ looks_like_website(url)
            THEN [channel_data EXCEPT !.website = FullUrl(url)]
            ELSE channel_data
     ELSE channel_data

\* for url in urls: ...
RECURSIVE ClassifyUrls(_, _)
ClassifyUrls(channel_data, urls) ==
  IF urls = <<>> THEN channel_data
  ELSE ClassifyUrls(ClassifyUrl(channel_data, Head(urls)), Tail(urls))

\* extract_contacts_from_text(channel_data, text): the record afterwards
extract_contacts_from_text(channel_data, text) ==
  IF text = "" THEN channel_data
  ELSE ClassifyUrls(AddEmails(channel_data, FindEmails(text)), FindUrls(text))

(***************************************************************************)
(* The services the run talks to.  What varies is whether a request fails, *)
(* with which status and error payload, and whether an item of a search    *)
(* answer has the 'channelId' key the code reads.                          *)
(***************************************************************************)
\* Python's None
None == [absent |-> TRUE]

\* n addresses  <tag>01@mail.es <tag>02@mail.es ...  each followed by a space
RECURSIVE MailingList(_, _)
MailingList(tag, n) ==
  IF n = 0 THEN ""
  ELSE MailingList(tag, n - 1) \o tag
         \o Ch("0123456789", (n \div 10) + 1) \o Ch("0123456789", (n % 10) + 1)
         \o "@mail.es "

\* search API: the channel ids of the items answered to each query
SearchItems ==
  [q \in {"cocina", "viajes"} |->
     IF q = "cocina" THEN <<"UCa", "UCb", "UCc">> ELSE <<"UCc", "UCa">>]

QueryNames == DOMAIN SearchItems

\* an item of a search answer whose snippet has no 'channelId' key
MissingChannelId == "<no channelId>"

\* search API: the answers to a query in which an item lacks the key
BrokenSearchItems ==
  [q \in QueryNames |->
     IF q = "viajes" THEN {<<"UCa", MissingChannelId, "UCb">>} ELSE {}]

\* channels API: the snippet and statistics of each channel id
ChannelItem ==
  [c \in {"UCa", "UCb", "UCc"} |->
     CASE c = "UCa" ->
            [title |-> "Cocina A", customUrl |-> "@cocinaa", subscriberCount |-> "1200",
             description |-> "Contacto: " \o MailingList("a", 30)
                               \o "https://www.instagram.com/cocina_a"]
       [] c = "UCb" ->
            [title |-> "Viajes B", customUrl |-> "", subscriberCount |-> "87",
             description |-> "Escribe a Hola@Viajes.es o a a01@mail.es "
                               \o MailingList("b", 33)]
       [] c = "UCc" ->
            [title |-> "Canal C", customUrl |-> "@canalc", subscriberCount |-> "5",
             description |-> "Sin correo. https://x.com/canalc"]]

\* the body served for a page URL with status 200
PageHtml(url) ==
  CASE url = "https://www.youtube.com/channel/UCa" ->
         "<p>" \o MailingList("c", 35) \o "</p>"
    [] url = "https://www.youtube.com/channel/UCb" ->
         "<p>HOLA@VIAJES.ES " \o MailingList("d", 35) \o "</p>"
    [] OTHER -> "<html><a href=\"https://www.youtube.com/\">YouTube</a></html>"

\* the reasons the search API puts in the error payload of a 403
QuotaReasons == {"quotaExceeded", "dailyLimitExceeded", "rateLimitExceeded"}

\* the outcomes of one search request: an exception of the transport, or a
\* response with a status; a 403 carries error_data, with or without the
\* 'error' key, whose 'errors' list names reasons
SearchOutcomes(query) ==
  {[kind |-> "exception"]}
  \cup {[kind |-> "response", status |-> 200, items |-> SearchItems[query]]}
  \cup {[kind |-> "response", status |-> 200, items |-> its] :
          its \in BrokenSearchItems[query]}
  \cup {[kind |-> "response", status |-> 500]}
  \cup {[kind |-> "response", status |-> 403, has_error |-> FALSE, errors |-> <<>>]}
  \cup {[kind |-> "response", status |-> 403, has_error |-> TRUE, errors |-> e] :
          e \in {<<"forbidden">>, <<"quotaExceeded">>, <<"dailyLimitExceeded">>,
                 <<"rateLimitExceeded">>, <<"forbidden", "quotaExceeded">>}}

\* the outcomes of the channels request: an exception (transport, or
\* raise_for_status), an answer without items, an answer with the item
MetadataOutcomes == {"exception", "no_items", "item"}

\* the outcomes of a page request: an exception, a status other than 200, 200
PageOutcomes == {"exception", "not_200", "200"}

(***************************************************************************)
(* Bounds and program constants                                            *)
(***************************************************************************)
\* the longest query list run is given
MaxQueries == 2

\* the budget of run, search_youtube_api and search_with_web_scraping
EmailThreshold == 100

\* max_retries of search_youtube_api
max_retries == 3

\* the factor of wait_time
BackoffUnit == 5

(***************************************************************************)
(* State                                                                   *)
(***************************************************************************)
VARIABLES
  search_queries,  \* run's argument
  pc,              \* where the run is: the blocking call or loop head next
  query_idx,       \* position of  query  in the list being iterated (1-based)
  attempt,         \* search_youtube_api: attempt
  response,        \* search_youtube_api: what the last request of the query gave
  wait_time,       \* search_youtube_api: wait_time of the sleep in progress
  items,           \* search_youtube_api: the channel ids of data['items']
  item_idx,        \* search_youtube_api: position of  item  in items
  channels,        \* search_youtube_api: channels
  channel_data,    \* get_channel_details: channel_data (None outside a build)
  urls,            \* scrape_channel_page: the URLs still to fetch
  emails_found,    \* self.emails_found
  channels_data,   \* self.channels_data
  text,            \* extract_contacts_from_text: text
  found_urls,      \* extract_contacts_from_text: the urls still to classify
  sources,         \* how many texts the record under extraction has been fed
  csvfile,         \* the CSV file save_to_csv writes: its rows
  infile,          \* the CSV file a post-processing tool reads: its rows
  outfile          \* the CSV file a post-processing tool writes: its rows

vars ==
  <<search_queries, pc, query_idx, attempt, response, wait_time, items, item_idx,
    channels, channel_data, urls, emails_found, channels_data, text, found_urls,
    sources, csvfile, infile, outfile>>

extract_vars == <<text, found_urls, sources>>

file_vars == <<csvfile, infile, outfile>>

\* all sequences over S of length 0..n
RECURSIVE SeqsUpTo(_, _)
SeqsUpTo(S, n) ==
  IF n = 0 THEN {<<>>}
  ELSE LET shorter == SeqsUpTo(S, n - 1)
       IN shorter \cup { Append(q, x) : q \in { r \in shorter : Len(r) = n - 1 }, x \in S }

\* __init__, and run called with a query list
Init ==
  /\ search_queries \in SeqsUpTo(QueryNames, MaxQueries)
  /\ pc = "run"
  /\ query_idx = 1
  /\ attempt = 0
  /\ response = None
  /\ wait_time = 0
  /\ items = <<>>
  /\ item_idx = 0
  /\ channels = <<>>
  /\ channel_data = None
  /\ urls = <<>>
  /\ emails_found = 0
  /\ channels_data = <<>>
  /\ text = ""
  /\ found_urls = <<>>
  /\ sources = 0
  /\ csvfile = <<>>
  /\ infile = <<>>
  /\ outfile = <<>>

(***************************************************************************)
(* run and search_youtube_api                                              *)
(***************************************************************************)
\* BudgetReached with > for >=
BudgetReached_Strict(found) == found > EmailThreshold

\* self.emails_found >= 100
BudgetReached(found) == found >= EmailThreshold

\* run, lines 384-388: the loop head, the budget check, and the call of
\* search_youtube_api up to its first request
RunNextQuery ==
  /\ pc = "run"
  /\ IF query_idx > Len(search_queries) \/ BudgetReached(emails_found)
     THEN /\ pc' = "fallback_check"
          /\ UNCHANGED <<attempt, channels>>
     ELSE /\ pc' = "search"
          /\ attempt' = 0
          /\ channels' = <<>>
  /\ response' = None
  /\ UNCHANGED <<search_queries, query_idx, wait_time, items, item_idx, channel_data,
                 urls, emails_found, channels_data, extract_vars, file_vars>>

\* Truthy keeping every entry
Truthy_All(chs) == chs

\* [c for c in channels if c]
Truthy(chs) == SelectSeq(chs, LAMBDA c : c # None)

\* ReturnChannels putting the new records in front
ReturnChannels_Prepend(chs) ==
  /\ channels_data' = Truthy(chs) \o channels_data
  /\ channels' = <<>>
  /\ pc' = "query_sleep"

\* search_youtube_api returns chs; run extends channels_data and goes to sleep
ReturnChannels(chs) ==
  /\ channels_data' = channels_data \o Truthy(chs)
  /\ channels' = <<>>
  /\ pc' = "query_sleep"

\* IsQuotaError taking every 403 for a quota error
IsQuotaError_Any403(r) == r.status = 403

\* IsQuotaError looking at the first entry of 'errors' only
IsQuotaError_FirstOnly(r) ==
  /\ r.status = 403
  /\ r.has_error
  /\ r.errors # <<>>
  /\ r.errors[1] \in QuotaReasons

\* lines 62-68: the response is a 403 whose payload names a quota reason
IsQuotaError(r) ==
  /\ r.status = 403
  /\ r.has_error
  /\ \E i \in 1..Len(r.errors) : r.errors[i] \in QuotaReasons

\* the request raises RequestException: session.get itself, or
\* raise_for_status on a 4xx/5xx status
RaisesRequestException(r) ==
  \/ r.kind = "exception"
  \/ r.kind = "response" /\ r.status >= 400

\* wait_time = (attempt + 1) * 5
WaitTime(a) == (a + 1) * BackoffUnit

\* IsLastAttempt one attempt late
IsLastAttempt_OffByOne(a) == a = max_retries

\* attempt == max_retries - 1
IsLastAttempt(a) == a = max_retries - 1

\* search_youtube_api, lines 56-85: one attempt of the search request
SearchRequest ==
  /\ pc = "search"
  /\ \E r \in SearchOutcomes(search_queries[query_idx]) :
       /\ response' = r
       /\ IF r.kind = "response" /\ IsQuotaError(r)
          THEN /\ ReturnChannels(channels)
               /\ UNCHANGED <<wait_time, items, item_idx>>
          ELSE IF RaisesRequestException(r)
          THEN IF IsLastAttempt(attempt)
               THEN /\ ReturnChannels(channels)
                    /\ UNCHANGED <<wait_time, items, item_idx>>
               ELSE /\ wait_time' = WaitTime(attempt)
                    /\ pc' = "backoff"
                    /\ UNCHANGED <<items, item_idx, channels, channels_data>>
          ELSE \* 200: break out of the retry loop and start on the items
               IF r.items = <<>>
               THEN /\ ReturnChannels(channels)
                    /\ items' = r.items
                    /\ UNCHANGED <<wait_time, item_idx>>
               ELSE /\ items' = r.items
                    /\ item_idx' = 1
                    /\ pc' = "channel_get"
                    /\ UNCHANGED <<wait_time, channels, channels_data>>
  /\ UNCHANGED <<search_queries, query_idx, attempt, channel_data, urls, emails_found,
                 extract_vars, file_vars>>

\* Backoff retrying without counting the attempt
Backoff_NoCount ==
  /\ pc = "backoff"
  /\ wait_time' = 0
  /\ pc' = "search"
  /\ UNCHANGED <<search_queries, query_idx, attempt, response, items, item_idx, channels,
                 channel_data, urls, emails_found, channels_data, extract_vars, file_vars>>

\* line 83: time.sleep(wait_time), then the next attempt
Backoff ==
  /\ pc = "backoff"
  /\ attempt' = attempt + 1
  /\ wait_time' = 0
  /\ pc' = "search"
  /\ UNCHANGED <<search_queries, query_idx, response, items, item_idx, channels,
                 channel_data, urls, emails_found, channels_data, extract_vars, file_vars>>

\* AppendChannel leaving the loop over the items at an absent profile
AppendChannel_StopAtNone(c, found) ==
  LET chs == Append(channels, c)
  IN IF BudgetReached(found) \/ item_idx = Len(items) \/ c = None
     THEN /\ ReturnChannels(chs)
          /\ UNCHANGED item_idx
     ELSE /\ channels' = chs
          /\ item_idx' = item_idx + 1
          /\ pc' = "channel_get"
          /\ UNCHANGED channels_data

\* lines 87-96: channels.append(c) with the budget at found, the budget
\* check, and the next item or the return
AppendChannel(c, found) ==
  LET chs == Append(channels, c)
  IN IF BudgetReached(found) \/ item_idx = Len(items)
     THEN /\ ReturnChannels(chs)
          /\ UNCHANGED item_idx
     ELSE /\ channels' = chs
          /\ item_idx' = item_idx + 1
          /\ pc' = "channel_get"
          /\ UNCHANGED channels_data

(***************************************************************************)
(* get_channel_details and scrape_channel_page                             *)
(***************************************************************************)
\* scrape_channel_page, lines 156-164: the URLs that are fetched, in order
PageUrls(cd) ==
  <<cd.channel_url>>
  \o (IF cd.handle # "" THEN <<"https://www.youtube.com/" \o cd.handle>> ELSE <<>>)
  \o <<cd.channel_url \o "/about">>

\* CountEmails counting one per channel that has emails
CountEmails_PerChannel(found, cd) ==
  IF cd.emails # {} THEN found + 1 ELSE found

\* CountEmails with = for +=
CountEmails_Assign(found, cd) ==
  IF cd.emails # {} THEN Cardinality(cd.emails) ELSE found

\* the budget after lines 143-144 for the finished record cd
CountEmails(found, cd) ==
  IF cd.emails # {} THEN found + Cardinality(cd.emails) ELSE found

\* get_channel_details, lines 143-146, and the caller's lines 87-91
FinishBuild(cd) ==
  /\ emails_found' = CountEmails(emails_found, cd)
  /\ AppendChannel(cd, CountEmails(emails_found, cd))
  /\ channel_data' = None
  /\ urls' = <<>>

\* search_youtube_api, line 86, then get_channel_details, lines 100-141, and
\* scrape_channel_page up to its first request.  item['snippet']['channelId']
\* of an item without the key raises KeyError, which the except of line 93
\* does not catch: the call ends in the except of run (line 392), the list
\* channels is dropped with its frame (the model keeps its last value, as it
\* keeps items and item_idx) and nothing is added to channels_data.
ChannelGet ==
  /\ pc = "channel_get"
  /\ \E m \in MetadataOutcomes :
       IF items[item_idx] = MissingChannelId
       THEN /\ pc' = "fallback_check"
            /\ UNCHANGED <<item_idx, channels, channel_data, urls, emails_found,
                           channels_data>>
       ELSE IF m = "item"
       THEN LET channel_id == items[item_idx]
                item == ChannelItem[channel_id]
                cd == NewChannelData(item.title, channel_id, item.customUrl,
                                     item.subscriberCount, item.description)
            IN /\ channel_data' = extract_contacts_from_text(cd, item.description)
               /\ urls' = PageUrls(cd)
               /\ pc' = "page_get"
               /\ UNCHANGED <<item_idx, channels, emails_found, channels_data>>
       ELSE \* return None (no items, or the except branch)
            /\ AppendChannel(None, emails_found)
            /\ UNCHANGED <<channel_data, urls, emails_found>>
  /\ UNCHANGED <<search_queries, query_idx, attempt, response, wait_time, items,
                 extract_vars, file_vars>>

\* NextPage leaving the loop over the URLs
NextPage_Break(cd) == FinishBuild(cd)

\* scrape_channel_page: the loop goes on to the next URL, or ends and the
\* build finishes
NextPage(cd) ==
  IF Len(urls) = 1
  THEN FinishBuild(cd)
  ELSE /\ urls' = Tail(urls)
       /\ channel_data' = cd
       /\ pc' = "page_get"
       /\ UNCHANGED <<item_idx, channels, emails_found, channels_data>>

\* scrape_channel_page, lines 166-173: one page request
PageGet ==
  /\ pc = "page_get"
  /\ \E p \in PageOutcomes :
       IF p = "200"
       THEN /\ channel_data' = extract_contacts_from_text(channel_data, PageHtml(Head(urls)))
            /\ pc' = "page_sleep"
            /\ UNCHANGED <<urls, item_idx, channels, emails_found, channels_data>>
       ELSE NextPage(channel_data)
  /\ UNCHANGED <<search_queries, query_idx, attempt, response, wait_time, items,
                 extract_vars, file_vars>>

\* line 171: time.sleep(1) after a page that answered 200
PageSleep ==
  /\ pc = "page_sleep"
  /\ NextPage(channel_data)
  /\ UNCHANGED <<search_queries, query_idx, attempt, response, wait_time, items,
                 extract_vars, file_vars>>

\* run, line 390: time.sleep(1), then the next query
QuerySleep ==
  /\ pc = "query_sleep"
  /\ query_idx' = query_idx + 1
  /\ pc' = "run"
  /\ UNCHANGED <<search_queries, attempt, response, wait_time, items, item_idx, channels,
                 channel_data, urls, emails_found, channels_data, extract_vars, file_vars>>

(***************************************************************************)
(* The fallback and the save                                               *)
(***************************************************************************)
\* NeedsFallback with <= for <
NeedsFallback_Inclusive(found) == found <= EmailThreshold

\* line 396: self.emails_found < 100
NeedsFallback(found) == found < EmailThreshold

\* run, lines 396-398
FallbackCheck ==
  /\ pc = "fallback_check"
  /\ IF NeedsFallback(emails_found)
     THEN pc' = "fallback" /\ query_idx' = 1
     ELSE pc' = "save" /\ UNCHANGED query_idx
  /\ UNCHANGED <<search_queries, attempt, response, wait_time, items, item_idx, channels,
                 channel_data, urls, emails_found, channels_data, extract_vars, file_vars>>

\* search_with_web_scraping, lines 228-233: the loop head and budget check
FallbackNextQuery ==
  /\ pc = "fallback"
  /\ pc' = IF query_idx > Len(search_queries) \/ BudgetReached(emails_found)
           THEN "save" ELSE "duckduckgo"
  /\ UNCHANGED <<search_queries, query_idx, attempt, response, wait_time, items, item_idx,
                 channels, channel_data, urls, emails_found, channels_data, extract_vars, file_vars>>

\* SearchDuckDuckGo building a record for a channel matched in the results
SearchDuckDuckGo_Builds ==
  /\ pc = "duckduckgo"
  /\ \E p \in PageOutcomes :
       /\ pc' = "socialblade"
       /\ channels_data' =
            IF p = "200"
            THEN Append(channels_data, NewChannelData("", "UCa", "", "0", ""))
            ELSE channels_data
  /\ UNCHANGED <<search_queries, query_idx, attempt, response, wait_time, items, item_idx,
                 channels, channel_data, urls, emails_found, extract_vars, file_vars>>

\* search_via_duckduckgo: whatever the request gives (an exception, a status,
\* a page with channel matches), the matches are only logged
SearchDuckDuckGo ==
  /\ pc = "duckduckgo"
  /\ \E p \in PageOutcomes : pc' = "socialblade"
  /\ UNCHANGED <<search_queries, query_idx, attempt, response, wait_time, items, item_idx,
                 channels, channel_data, urls, emails_found, channels_data, extract_vars, file_vars>>

\* search_socialblade: the result is only logged
SearchSocialBlade ==
  /\ pc = "socialblade"
  /\ \E p \in PageOutcomes : pc' = "fallback_sleep"
  /\ UNCHANGED <<search_queries, query_idx, attempt, response, wait_time, items, item_idx,
                 channels, channel_data, urls, emails_found, channels_data, extract_vars, file_vars>>

\* search_with_web_scraping, line 238: time.sleep(2), then the next query
FallbackSleep ==
  /\ pc = "fallback_sleep"
  /\ query_idx' = query_idx + 1
  /\ pc' = "fallback"
  /\ UNCHANGED <<search_queries, attempt, response, wait_time, items, item_idx, channels,
                 channel_data, urls, emails_found, channels_data, extract_vars, file_vars>>

\* fieldnames of save_to_csv: the columns, in order
fieldnames ==
  <<"channel_name", "channel_url", "handle", "subscriber_count", "emails",
    "instagram", "twitter", "facebook", "tiktok", "twitch", "discord", "linkedin",
    "website", "description">>

\* the characters of the model's strings in the order of their code points
\* (printable ASCII without the double quote, the backslash and the backtick)
AsciiOrder ==
  " !#$%&'()*+,-./0123456789:;<=>?@ABCDEFGHIJKLMNOPQRSTUVWXYZ[]^_"
  \o "abcdefghijklmnopqrstuvwxyz{|}~"

\* the rank of the one-character string c among the code points
CodePoint(c) == CHOOSE i \in 1..Len(AsciiOrder) : Ch(AsciiOrder, i) = c

\* the first position in lo..hi at which a and b differ, hi + 1 if none, for
\* a and b equal before lo (by halves)
RECURSIVE FirstDiff(_, _, _, _)
FirstDiff(a, b, lo, hi) ==
  IF lo > hi THEN hi + 1
  ELSE LET m == (lo + hi) \div 2
       IN IF SubSeq(a, lo, m) = SubSeq(b, lo, m)
          THEN FirstDiff(a, b, m + 1, hi)
          ELSE IF lo = m THEN lo ELSE FirstDiff(a, b, lo, m)

\* sorted(S) of a set S of str, in Python's order of str (by the code points
\* at the first difference, a proper prefix first).  SortedFrom(S, k) sorts
\* strings that agree before position k: it goes to the first position d at
\* which they do not all agree, puts the string that ends before d first,
\* and then the others by their character at d, each group sorted from
\* d + 1.  SortedBuckets goes through the code points lo..hi by halves.
RECURSIVE SortedFrom(_, _), SortedBuckets(_, _, _, _)
SortedFrom(S, k) ==
  IF S = {} THEN <<>>
  ELSE LET e0 == CHOOSE e \in S : TRUE
       IN IF S = {e0} THEN <<e0>>
          ELSE LET ds == { FirstDiff(e0, e, k, IF Len(e) < Len(e0) THEN Len(e) ELSE Len(e0)) :
                             e \in S \ {e0} }
                   d == CHOOSE x \in ds : \A y \in ds : x <= y
                   ended == { e \in S : Len(e) < d }
                   keyed == { <<CodePoint(Ch(e, d)), e>> : e \in S \ ended }
               IN (IF ended = {} THEN <<>> ELSE <<CHOOSE e \in ended : TRUE>>)
                  \o SortedBuckets(keyed, d, 1, Len(AsciiOrder))

SortedBuckets(keyed, d, lo, hi) ==
  LET here == { p \in keyed : lo <= p[1] /\ p[1] <= hi }
  IN IF here = {} THEN <<>>
     ELSE IF lo = hi THEN SortedFrom({ p[2] : p \in here }, d + 1)
     ELSE LET m == (lo + hi) \div 2
          IN SortedBuckets(here, d, lo, m) \o SortedBuckets(here, d, m + 1, hi)

Sorted(S) == SortedFrom(S, 1)

\* sep.join(seq[i..j]), by halves
RECURSIVE JoinRange(_, _, _, _)
JoinRange(sep, seq, i, j) ==
  IF i > j THEN ""
  ELSE IF i = j THEN seq[i]
  ELSE LET m == (i + j) \div 2
       IN JoinRange(sep, seq, i, m) \o sep \o JoinRange(sep, seq, m + 1, j)

\* sep.join(seq)
Join(sep, seq) == JoinRange(sep, seq, 1, Len(seq))

\* line 289: ', '.join(sorted(channel['emails'])) if channel['emails'] else ''
EmailsColumn(emails) == IF emails # {} THEN Join(", ", Sorted(emails)) ELSE ""

\* the cap of line 290
DescriptionLimit == 500

\* DescriptionColumn without the cap
DescriptionColumn_NoCap(description) == description

\* line 290: channel['description'][:500]
DescriptionColumn(description) ==
  IF Len(description) > DescriptionLimit
  THEN SubSeq(description, 1, DescriptionLimit) ELSE description

\* lines 288-292 raise for the record: KeyError of channel['emails'] or
\* channel['description'], or the ValueError of DictWriter for a key that is
\* no column
RaisesOnWrite(channel) ==
  \/ "emails" \notin DOMAIN channel
  \/ "description" \notin DOMAIN channel
  \/ \E key \in DOMAIN channel : \A k \in 1..Len(fieldnames) : fieldnames[k] # key

\* lines 288-292: the row written for a record; DictWriter writes the
\* columns in the order of fieldnames and '' for a key the dict has not
CsvRow(channel) ==
  [k \in 1..Len(fieldnames) |->
     LET key == fieldnames[k]
     IN IF key = "emails" THEN EmailsColumn(channel.emails)
        ELSE IF key = "description" THEN DescriptionColumn(channel.description)
        ELSE IF key \in DOMAIN channel THEN channel[key]
        ELSE ""]

\* save_to_csv, lines 278-292: the rows of the file afterwards: the header,
\* then a row for each record up to the first one that raises
WrittenRows(records) ==
  LET bad == { i \in 1..Len(records) : RaisesOnWrite(records[i]) }
      n == IF bad = {} THEN Len(records)
           ELSE (CHOOSE x \in bad : \A y \in bad : x <= y) - 1
  IN <<fieldnames>> \o [i \in 1..n |-> CsvRow(records[i])]

\* run, lines 401-403: save_to_csv and the return; an exception of
\* save_to_csv is caught nowhere and ends run
SaveToCsv ==
  /\ pc = "save"
  /\ csvfile' = WrittenRows(channels_data)
  /\ pc' = IF \E i \in 1..Len(channels_data) : RaisesOnWrite(channels_data[i])
           THEN "failed" ELSE "done"
  /\ UNCHANGED <<search_queries, query_idx, attempt, response, wait_time, items, item_idx,
                 channels, channel_data, urls, emails_found, channels_data, extract_vars,
                 infile, outfile>>

Next ==
  \/ RunNextQuery
  \/ SearchRequest
  \/ Backoff
  \/ ChannelGet
  \/ PageGet
  \/ PageSleep
  \/ QuerySleep
  \/ FallbackCheck
  \/ FallbackNextQuery
  \/ SearchDuckDuckGo
  \/ SearchSocialBlade
  \/ FallbackSleep
  \/ SaveToCsv

Spec == Init /\ [][Next]_vars

\* the positions of the steps that extract from a text or sort addresses:
\* ChannelGet, PageGet and SaveToCsv
TextPcs == {"channel_get", "page_get", "save"}

\* the other steps
PlainSteps ==
  \/ RunNextQuery
  \/ SearchRequest
  \/ Backoff
  \/ PageSleep
  \/ QuerySleep
  \/ FallbackCheck
  \/ FallbackNextQuery
  \/ SearchDuckDuckGo
  \/ SearchSocialBlade
  \/ FallbackSleep

\* run is one thread of control and each of its blocking calls returns (the
\* requests carry a timeout, the sleeps are finite): a step that can be
\* taken is taken.  This is weak fairness of PlainSteps and of the three
\* other steps; that of the three is written out: one of them can be taken
\* exactly at the positions TextPcs, and a step of the run from there is
\* one of them.
SpecLive ==
  /\ Spec
  /\ WF_vars(PlainSteps)
  /\ \/ []<>(pc \notin TextPcs)
     \/ []<><<pc \in TextPcs>>_vars

(***************************************************************************)
(* The extractor on its own: one record is fed texts, one after the other, *)
(* as get_channel_details and scrape_channel_page feed it the description  *)
(* and the pages; the loop over the matched urls is taken one url a step.  *)
(***************************************************************************)
\* how many texts one record is fed
MaxSources == 2

\* pieces of text: addresses and links
Fragments ==
  {"a@b.com", "A@B.COM", "bad@example.com", "c@d.es",
   "https://www.instagram.com/uno", "https://instagram.com/dos",
   "https://twitter.com/uno", "https://x.com/dos",
   "https://www.tiktok.com/@uno", "https://mitienda.es", "http://otra.org/blog"}

\* a page that links every other platform, and the testable properties' text
LinksPage ==
  "<a href=\"https://facebook.com/uno\"> <a href=\"https://www.twitch.tv/uno\"> "
  \o "<a href=\"https://discord.gg/uno\"> <a href=\"https://linkedin.com/in/uno\"> "
  \o "<a href=\"https://youtu.be/uno\"> <a href=\"https://maps.google.com/uno\"> "
  \o "<a href=\"https://facebook.com/dos\"> <a href=\"https://discord.com/dos\"> "
  \o "QA@Latest.io me@yourdomain.org C@D.es"

\* the texts fed: nothing, one fragment, two fragments, the links page
Texts ==
  {""} \cup Fragments \cup { a \o " " \o b : a \in Fragments, b \in Fragments }
       \cup {LinksPage}

\* re.findall(email_pattern, text) and re.findall(url_pattern, text) of every
\* text fed, computed once
EmailsOf == [t \in Texts |-> FindEmails(t)]
UrlsOf   == [t \in Texts |-> FindUrls(t)]

\* a fresh record, as get_channel_details creates it
InitExtract ==
  /\ search_queries = <<>>
  /\ pc = "extract"
  /\ query_idx = 1
  /\ attempt = 0
  /\ response = None
  /\ wait_time = 0
  /\ items = <<>>
  /\ item_idx = 0
  /\ channels = <<>>
  /\ channel_data = NewChannelData("Canal", "UCx", "", "0", "")
  /\ urls = <<>>
  /\ emails_found = 0
  /\ channels_data = <<>>
  /\ text = ""
  /\ found_urls = <<>>
  /\ sources = 0
  /\ csvfile = <<>>
  /\ infile = <<>>
  /\ outfile = <<>>

run_vars ==
  <<search_queries, pc, query_idx, attempt, response, wait_time, items, item_idx,
    channels, urls, emails_found, channels_data, csvfile, infile, outfile>>

\* extract_contacts_from_text, lines 180-193: the call with a text, the
\* emails, and the urls found
ExtractBegin ==
  /\ pc = "extract"
  /\ found_urls = <<>>
  /\ sources < MaxSources
  /\ \E t \in Texts :
       /\ text' = t
       /\ channel_data' = IF t = "" THEN channel_data
                          ELSE AddEmails(channel_data, EmailsOf[t])
       /\ found_urls' = IF t = "" THEN <<>> ELSE UrlsOf[t]
  /\ sources' = sources + 1
  /\ UNCHANGED run_vars

\* extract_contacts_from_text, lines 195-216: the loop body for the next url
ExtractUrl ==
  /\ pc = "extract"
  /\ found_urls # <<>>
  /\ channel_data' = ClassifyUrl(channel_data, Head(found_urls))
  /\ found_urls' = Tail(found_urls)
  /\ UNCHANGED <<text, sources>>
  /\ UNCHANGED run_vars

NextExtract == ExtractBegin \/ ExtractUrl

SpecExtract == InitExtract /\ [][NextExtract]_vars

(***************************************************************************)
(* save_to_csv on its own: the result list is any list of up to MaxRecords *)
(* records of SaveRecords, among them records that lack a field.           *)
(***************************************************************************)
\* how many records the result list holds
MaxRecords == 2

\* s repeated n times (by halves)
RECURSIVE Repeat(_, _)
Repeat(s, n) ==
  IF n = 0 THEN ""
  ELSE IF n = 1 THEN s
  ELSE Repeat(s, n \div 2) \o Repeat(s, n - n \div 2)

\* the record r without the keys of gone
Without(r, gone) == [key \in DOMAIN r \ gone |-> r[key]]

\* a record as get_channel_details returns it, with addresses that differ
\* in the characters - . 1 @ _ b after a common first letter, and a link
FullRecord ==
  [NewChannelData("Cocina Ana", "UCa", "@cocinaana", "1200", "Recetas de casa")
     EXCEPT !.emails = {"b@x.es", "a@x.es", "a.b@x.es", "a-b@x.es", "a_b@x.es",
                        "a1@x.es", "ab@x.es"},
            !.instagram = "https://www.instagram.com/cocinaana",
            !.website = "https://cocinaana.es"]

\* the records save_to_csv is given: full, without addresses, with a
\* description of 501, of 500 and of 499 characters, and records that lack
\* keys that are columns
SaveRecords ==
  { FullRecord,
    NewChannelData("Canal B", "UCb", "", "0", ""),
    [NewChannelData("Largo", "UCc", "@largo", "7", Repeat("x", 500) \o "y")
       EXCEPT !.emails = {"largo@x.es"}],
    NewChannelData("Justo", "UCd", "@justo", "8", Repeat("x", 499) \o "z"),
    [NewChannelData("Corto", "UCe", "@corto", "9", Repeat("x", 498) \o "w")
       EXCEPT !.emails = {"z@x.es", "9@x.es"}],
    Without(FullRecord, {"handle", "website", "subscriber_count"}),
    Without(FullRecord, {"emails"}),
    Without(FullRecord, {"description"}) }

\* run has collected the records and is about to save them
InitSave ==
  /\ search_queries = <<>>
  /\ pc = "save"
  /\ query_idx = 1
  /\ attempt = 0
  /\ response = None
  /\ wait_time = 0
  /\ items = <<>>
  /\ item_idx = 0
  /\ channels = <<>>
  /\ channel_data = None
  /\ urls = <<>>
  /\ emails_found = 0
  /\ channels_data \in SeqsUpTo(SaveRecords, MaxRecords)
  /\ text = ""
  /\ found_urls = <<>>
  /\ sources = 0
  /\ csvfile = <<>>
  /\ infile = <<>>
  /\ outfile = <<>>

NextSave == SaveToCsv

SpecSave == InitSave /\ [][NextSave]_vars

(***************************************************************************)
(* The post-processing tools: clean_csv of process_csv.py, the script      *)
(* remove_other_links_simple.py and filter_csv of filter_emails.py.  A     *)
(* file is its rows as csv.reader yields them and csv.writer takes them:   *)
(* the header, then the data rows, each row a list of fields.              *)
(***************************************************************************)
\* how many data rows the input file holds
MaxRows == 2

\* headers.index(name): the 0-based position of the first column of that name
Index(headers, name) ==
  (CHOOSE k \in 1..Len(headers) :
     headers[k] = name /\ \A j \in 1..(k - 1) : headers[j] # name) - 1

\* name in headers
InHeaders(headers, name) == \E k \in 1..Len(headers) : headers[k] = name

\* h is a column that stays
NotOtherLinks(h) == h # "other_links"

\* new_headers (process_csv.py line 28, remove_other_links_simple.py line 19)
NewHeaders(headers) == SelectSeq(headers, NotOtherLinks)

\* CleanRow removing the field after the one of the column
CleanRow_Next(row, other_links_index) ==
  [k \in 1..(Len(row) - 1) |-> IF k - 1 < other_links_index + 1 THEN row[k] ELSE row[k + 1]]

\* process_csv.py lines 34-39: the row written for a data row; the fields
\* at the 0-based positions other than other_links_index, in order
CleanRow(row, other_links_index) ==
  IF Len(row) > other_links_index
  THEN [k \in 1..(Len(row) - 1) |-> IF k - 1 < other_links_index THEN row[k] ELSE row[k + 1]]
  ELSE row

\* SimpleRow that removes nothing
SimpleRow_Keep(row, other_links_index) == row

\* remove_other_links_simple.py lines 24-28: the row written for a data row
SimpleRow(row, other_links_index) ==
  IF Len(row) > other_links_index
  THEN SubSeq(row, 1, other_links_index) \o SubSeq(row, other_links_index + 2, Len(row))
  ELSE row

\* clean_csv, lines 22-46: the rows of the output file
CleanedFile(rows) ==
  LET headers == rows[1]
  IN IF InHeaders(headers, "other_links")
     THEN <<NewHeaders(headers)>>
          \o [k \in 1..(Len(rows) - 1) |-> CleanRow(rows[k + 1], Index(headers, "other_links"))]
     ELSE <<headers>> \o SubSeq(rows, 2, Len(rows))

\* remove_other_links_simple.py, lines 13-33: the rows of the output file
SimpleFile(rows) ==
  LET headers == rows[1]
  IN IF InHeaders(headers, "other_links")
     THEN <<NewHeaders(headers)>>
          \o [k \in 1..(Len(rows) - 1) |-> SimpleRow(rows[k + 1], Index(headers, "other_links"))]
     ELSE <<headers>> \o [k \in 1..(Len(rows) - 1) |-> rows[k + 1]]

\* the characters str.strip() removes
Whitespace == {" ", "\t", "\n", "\r"}

\* str.strip()
Strip(s) ==
  IF \A k \in 1..Len(s) : Ch(s, k) \in Whitespace THEN ""
  ELSE LET first == CHOOSE i \in 1..Len(s) :
                      Ch(s, i) \notin Whitespace /\ \A k \in 1..(i - 1) : Ch(s, k) \in Whitespace
           last == CHOOSE j \in 1..Len(s) :
                     Ch(s, j) \notin Whitespace /\ \A k \in (j + 1)..Len(s) : Ch(s, k) \in Whitespace
       IN SubSeq(s, first, last)

\* re.match of  ^[a-zA-Z0-9._%+-]+@[a-zA-Z0-9.-]+\.[a-zA-Z]{2,}$  on e: the
\* greedy local part ends at the first "@"; the domain run backtracks to
\* the one "." after which only letters follow, the last "." of e
StrictMatch(e) ==
  LET at == RunEnd(e, 1, LocalChars)
      letters == UpperLetters \cup LowerLetters
  IN /\ at > 1
     /\ at <= Len(e)
     /\ Ch(e, at) = "@"
     /\ \E d \in (at + 2)..(Len(e) - 2) :
          /\ Ch(e, d) = "."
          /\ RunEnd(e, at + 1, DomainChars) >= d
          /\ RunEnd(e, d + 1, letters) = Len(e) + 1

\* is_valid_email, lines 15-21
is_valid_email(email) == email # "" /\ StrictMatch(Strip(email))

\* contains_email testing the field as a whole
contains_email_Whole(field) == is_valid_email(field)

\* contains_email, lines 23-29
contains_email(field) ==
  /\ field # ""
  /\ LET emails == FindEmails(field)
     IN \E k \in 1..Len(emails) : is_valid_email(emails[k])

\* any(contains_email(v) for v in row), lines 84 and 92
RowHasEmail(row) == \E k \in 1..Len(row) : contains_email(row[k])

\* lines 83, 85 and 91, 93: row_dict = dict(zip(fieldnames, row)) as
\* DictWriter writes it: for each column the field of the last column of
\* that name the row reaches, '' when the row reaches none
DictRow(header, row) ==
  [k \in 1..Len(header) |->
     LET same == { j \in 1..Len(header) : j <= Len(row) /\ header[j] = header[k] }
     IN IF same = {} THEN ""
        ELSE row[CHOOSE j \in same : \A i \in same : i <= j]]

\* lines 81-97: the rows written for the data rows from position k on
RECURSIVE FilteredFrom(_, _)
FilteredFrom(rows, k) ==
  IF k > Len(rows) THEN <<>>
  ELSE (IF RowHasEmail(rows[k]) THEN <<DictRow(rows[1], rows[k])>> ELSE <<>>)
       \o FilteredFrom(rows, k + 1)

\* filter_csv, lines 68-97: the rows of the output file
FilteredFile(rows) == <<rows[1]>> \o FilteredFrom(rows, 2)

\* the headers of the input file
ToolHeaders ==
  { <<"a", "other_links", "b">>, <<"a", "b">>, <<"other_links", "a">>,
    <<"a", "other_links", "other_links">> }

\* the data rows of the input file: of the length of a header, shorter,
\* longer, empty (a blank line), and rows with addresses as a whole field,
\* inside a longer field, and with a scanning match that is no address
ToolRows ==
  { <<"1", "2", "3">>, <<"1", "2">>, <<"1">>, <<>>, <<"1", "2", "3", "4">>,
    <<"Ana", "a@b.com", "x">>,
    <<"Ana", "Contacto: a@b.com">>,
    <<"sin correo", "a@b.com|x">>,
    <<"a@b.c|m", "x", "y", "z">>,
    <<" a@b.com ", "", "Web: https://x.es">> }

\* a tool is about to run on an input file with a header
InitTools ==
  /\ search_queries = <<>>
  /\ pc = "tool"
  /\ query_idx = 1
  /\ attempt = 0
  /\ response = None
  /\ wait_time = 0
  /\ items = <<>>
  /\ item_idx = 0
  /\ channels = <<>>
  /\ channel_data = None
  /\ urls = <<>>
  /\ emails_found = 0
  /\ channels_data = <<>>
  /\ text = ""
  /\ found_urls = <<>>
  /\ sources = 0
  /\ csvfile = <<>>
  /\ \E headers \in ToolHeaders, rows \in SeqsUpTo(ToolRows, MaxRows) :
       infile = <<headers>> \o rows
  /\ outfile = <<>>

tool_vars ==
  <<search_queries, query_idx, attempt, response, wait_time, items, item_idx, channels,
    channel_data, urls, emails_found, channels_data, text, found_urls, sources, csvfile,
    infile>>

\* process_csv.py: clean_csv(input_file, output_file)
CleanCsv ==
  /\ pc = "tool"
  /\ outfile' = CleanedFile(infile)
  /\ pc' = "cleaned"
  /\ UNCHANGED tool_vars

\* remove_other_links_simple.py, the whole script
RemoveOtherLinksSimple ==
  /\ pc = "tool"
  /\ outfile' = SimpleFile(infile)
  /\ pc' = "removed"
  /\ UNCHANGED tool_vars

\* filter_emails.py: filter_csv(input_file, output_file)
FilterCsv ==
  /\ pc = "tool"
  /\ outfile' = FilteredFile(infile)
  /\ pc' = "filtered"
  /\ UNCHANGED tool_vars

NextTools == CleanCsv \/ RemoveOtherLinksSimple \/ FilterCsv

SpecTools == InitTools /\ [][NextTools]_vars

(***************************************************************************)
(* Properties of the run (Spec)                                            *)
(***************************************************************************)
\* the records handed on so far: those of the earlier queries and those of
\* the query in progress
Collected == channels_data \o Truthy(channels)

\* r is a response of status 403 whose error payload names a quota reason
NamesQuotaReason(r) ==
  /\ r # None
  /\ r.kind = "response"
  /\ r.status = 403
  /\ r.has_error
  /\ \E i \in 1..Len(r.errors) :
       r.errors[i] \in {"quotaExceeded", "dailyLimitExceeded", "rateLimitExceeded"}

\* C1: once emails_found is 100 or more, the run is at no search request, no
\* backoff before one, no channels request and no page request: nothing of
\* the primary search is issued and no profile build is started or under
\* way (the build that crossed the threshold has already finished).
C1_BudgetStopsEnumeration ==
  emails_found >= 100 =>
    pc \notin {"search", "backoff", "channel_get", "page_get", "page_sleep"}

\* C1 witness: the run has ended with the budget reached while results of
\* the query and queries of the list were still left.
C1_Witness ==
  /\ pc = "done"
  /\ emails_found >= 100
  /\ item_idx < Len(items)
  /\ query_idx <= Len(search_queries)

\* C2: a query's search request is attempted at most 3 times; the k-th failed
\* attempt (k = 1, 2) is followed by a sleep of k * 5 and then by attempt
\* k + 1 of the same query; an attempt answered 200 ends the retries; a third
\* failure in a row gives the query no channels, and the sleep of the run
\* then leads to the next query.
C2_RetryBackoff ==
  [][ /\ pc = "search" => attempt < 3
      /\ pc' = "search" =>
           \/ pc = "run" /\ attempt' = 0
           \/ pc = "backoff" /\ attempt' = attempt + 1 /\ query_idx' = query_idx
      /\ (pc = "search" /\ response'.kind = "exception" /\ attempt < 2) =>
           (pc' = "backoff" /\ wait_time' = (attempt + 1) * 5)
      /\ pc = "backoff" => pc' = "search"
      /\ (pc = "search" /\ response'.kind = "response" /\ response'.status = 200) =>
           pc' \in {"channel_get", "query_sleep"}
      /\ (pc = "search" /\ response'.kind = "exception" /\ attempt = 2) =>
           (pc' = "query_sleep" /\ channels_data' = channels_data)
      /\ pc = "query_sleep" => (pc' = "run" /\ query_idx' = query_idx + 1)
    ]_vars

\* C2 witness: the third attempt of a query has failed and the run sleeps
\* before the next query.
C2_Witness ==
  /\ pc = "query_sleep"
  /\ attempt = 2
  /\ response # None
  /\ response.kind = "exception"
  /\ query_idx < Len(search_queries)

\* C3: a search request answered 403 with a quota reason in the payload ends
\* the query at once, at any attempt: the function returns without a sleep
\* or another attempt, with no profile built and nothing added to the
\* result list or the budget.
C3_QuotaAbortsQuery ==
  [][ /\ (pc = "search" /\ NamesQuotaReason(response')) =>
           /\ pc' = "query_sleep"
           /\ channels_data' = channels_data
           /\ emails_found' = emails_found
           /\ channel_data' = None
      /\ NamesQuotaReason(response) => pc \in {"query_sleep", "run"}
    ]_vars

\* C3 witness: the quota answer came at the second attempt, after a reason
\* that is no quota reason.
C3_Witness ==
  /\ pc = "query_sleep"
  /\ attempt = 1
  /\ NamesQuotaReason(response)
  /\ response.errors[1] = "forbidden"

\* C4: after a quota answer to a query, no search request is issued for the
\* next query.
C4_QuotaEndsRun ==
  [][ (pc = "run" /\ NamesQuotaReason(response)) => pc' # "search" ]_vars

\* C9: the budget never decreases; it changes only in the step that ends a
\* profile build, after the last page of the channel, and there it grows by
\* the size of the record's email set (by nothing for an empty set).
C9_BudgetGrowsByEmailCount ==
  [][ LET finishing == channel_data # None /\ channel_data' = None
      IN /\ emails_found' >= emails_found
         /\ finishing =>
              /\ Len(urls) = 1
              /\ emails_found' = emails_found + Cardinality(channel_data.emails)
         /\ ~finishing => emails_found' = emails_found
    ]_vars

\* C9 witness: the run has ended having built a profile without emails and
\* profiles with emails.
C9_Witness ==
  /\ pc = "done"
  /\ emails_found > 0
  /\ \E i \in 1..Len(channels_data) : channels_data[i].emails = {}

\* the sum of the sizes of the email sets of the records of a list
RECURSIVE SumEmailCounts(_)
SumEmailCounts(records) ==
  IF records = <<>> THEN 0
  ELSE Cardinality(Head(records).emails) + SumEmailCounts(Tail(records))

\* the distinct addresses of the records of a list
DistinctEmails(records) == UNION { records[i].emails : i \in 1..Len(records) }

\* C10 as stated: the budget is the number of distinct addresses collected
\* so far over all channels of the run.
C10_BudgetCountsDistinct ==
  emails_found = Cardinality(DistinctEmails(Collected))

\* C10 amended: the budget is the sum, over the profiles built so far, of
\* the size of each profile's own email set: an address found on two
\* channels, or on a channel returned by two queries, is counted once for
\* each profile.
C10_BudgetIsSumOverProfiles ==
  emails_found = SumEmailCounts(Collected)

\* C10 witness: the run has ended with addresses counted more than once.
C10_Witness ==
  /\ pc = "done"
  /\ emails_found > Cardinality(DistinctEmails(channels_data))

\* the step of a profile build that reports absent: the channels request of
\* a well-formed item is answered by an exception or without items
AbsentBuild ==
  /\ pc = "channel_get"
  /\ items[item_idx] # MissingChannelId
  /\ pc' # "page_get"

\* the channel_url of every record of a list
RECURSIVE UrlsOfRecords(_)
UrlsOfRecords(records) ==
  IF records = <<>> THEN <<>>
  ELSE <<Head(records).channel_url>> \o UrlsOfRecords(Tail(records))

\* the canonical URL of a channel id
CanonicalUrl(channel_id) == "https://www.youtube.com/channel/" \o channel_id

\* a is a prefix of b
IsPrefix(a, b) == Len(a) <= Len(b) /\ SubSeq(b, 1, Len(a)) = a

\* C11: an absent profile build ends nothing: with results of the query left
\* the next step is the build of the next result of the same query, with
\* every record built so far kept; after the last result the query returns
\* and all records built in it are handed to the result list; the sleep of
\* the run then leads to the next query, which is searched while the budget
\* is below 100; no record ever leaves the result list, and the save writes
\* a row for each record of it.
C11_AbsentBuildGoesOn ==
  [][ /\ AbsentBuild =>
           IF item_idx < Len(items)
           THEN /\ pc' = "channel_get"
                /\ item_idx' = item_idx + 1
                /\ query_idx' = query_idx
                /\ channels_data' = channels_data
                /\ Truthy(channels') = Truthy(channels)
           ELSE /\ pc' = "query_sleep"
                /\ channels_data' = channels_data \o Truthy(channels)
      /\ pc = "query_sleep" => (pc' = "run" /\ query_idx' = query_idx + 1)
      /\ (pc = "run" /\ query_idx <= Len(search_queries) /\ emails_found < 100) =>
           pc' = "search"
      /\ IsPrefix(channels_data, channels_data')
      /\ pc = "save" => Len(csvfile') = Len(channels_data) + 1
    ]_vars

\* C11 witness: the run has ended; the first result of the first query was
\* absent, the results after it and those of the second query were built,
\* and all of them are in the result list and in the file.
C11_Witness ==
  /\ pc = "done"
  /\ search_queries = <<"cocina", "viajes">>
  /\ UrlsOfRecords(channels_data)
       = <<CanonicalUrl("UCb"), CanonicalUrl("UCc"), CanonicalUrl("UCc"),
           CanonicalUrl("UCa")>>
  /\ Len(csvfile) = 5

\* C12: the result list never holds an absent entry, and a profile build
\* that reports absent leaves the budget as it was and adds no record to
\* the records collected: not in its own step, and not when the query
\* returns (the list returned is handed on without its absent entries).
C12_AbsentAddsNothing ==
  /\ [](\A i \in 1..Len(channels_data) : channels_data[i] # None)
  /\ [][ /\ AbsentBuild =>
              /\ emails_found' = emails_found
              /\ channels_data' \o Truthy(channels') = channels_data \o Truthy(channels)
              /\ channel_data' = None
         /\ Len(channels_data') - Len(channels_data)
              <= Len(Truthy(channels)) + (IF channel_data # None THEN 1 ELSE 0)
       ]_vars

\* C12 witness: the run has ended; the search of its one query was answered
\* with three results, the loop reached the last of them, and one record
\* is in the result list: two builds were absent, and the budget is what
\* the one record counts.
C12_Witness ==
  /\ pc = "done"
  /\ search_queries = <<"cocina">>
  /\ items = SearchItems["cocina"]
  /\ item_idx = 3
  /\ UrlsOfRecords(channels_data) = <<CanonicalUrl("UCb")>>
  /\ emails_found = Cardinality(channels_data[1].emails)

\* C13: the pages of a build are requested in the order canonical URL,
\* handle URL (only for a non-empty handle), about URL; a request that
\* fails or is not answered 200 leaves the record as it is and is followed
\* by the request of the next URL (by the end of the build after the last
\* one, with the record as it is); the email set of the record only grows.
C13_PageVariantsInOrder ==
  [][ /\ (pc = "channel_get" /\ pc' = "page_get") =>
           LET u == channel_data'.channel_url
               h == channel_data'.handle
           IN /\ u = CanonicalUrl(items[item_idx])
              /\ urls' = IF h = "" THEN <<u, u \o "/about">>
                         ELSE <<u, "https://www.youtube.com/" \o h, u \o "/about">>
      /\ (pc = "page_get" /\ pc' # "page_sleep") =>
           IF Len(urls) > 1
           THEN pc' = "page_get" /\ urls' = Tail(urls) /\ channel_data' = channel_data
           ELSE /\ channel_data' = None
                /\ LET all == channels_data' \o channels'
                   IN all[Len(all)] = channel_data
      /\ (pc = "page_get" /\ pc' = "page_sleep") => urls' = urls
      /\ pc = "page_sleep" =>
           IF Len(urls) > 1
           THEN pc' = "page_get" /\ urls' = Tail(urls) /\ channel_data' = channel_data
           ELSE channel_data' = None
      /\ (channel_data # None /\ channel_data' # None) =>
           /\ channel_data.emails \subseteq channel_data'.emails
           /\ channel_data'.channel_url = channel_data.channel_url
    ]_vars

\* C13 witness: the about page of a channel with a handle is about to be
\* requested; the canonical page was not answered 200, and the record still
\* has the thirty addresses and the link of the description.
C13_Witness ==
  /\ pc = "page_get"
  /\ Len(urls) = 1
  /\ channel_data.handle = "@cocinaa"
  /\ Cardinality(channel_data.emails) = 30
  /\ channel_data.instagram # ""

\* C14: the fallback is entered exactly from the check after the primary
\* phase, which is reached from the loop head of run or from the item that
\* raised, and exactly when the budget is below 100; it goes through the
\* same query list from its first query, and a fallback request for a query
\* is only made after the budget was found below 100 at the loop head.
C14_FallbackBelowBudget ==
  [][ /\ pc = "fallback_check" =>
           IF emails_found < 100
           THEN pc' = "fallback" /\ query_idx' = 1
           ELSE pc' = "save"
      /\ pc' = "fallback_check" => pc \in {"run", "channel_get"}
      /\ pc' = "fallback" => pc \in {"fallback_check", "fallback_sleep"}
      /\ pc' = "duckduckgo" =>
           /\ pc = "fallback"
           /\ emails_found < 100
           /\ query_idx <= Len(search_queries)
      /\ (pc = "fallback" /\ pc' # "duckduckgo") =>
           (pc' = "save" /\ (emails_found >= 100 \/ query_idx > Len(search_queries)))
      /\ pc \in {"fallback_check", "fallback", "duckduckgo", "socialblade",
                 "fallback_sleep"} => search_queries' = search_queries
      /\ pc' = "save" => pc \in {"fallback_check", "fallback"}
    ]_vars

\* C14 witness: the primary phase ended by the error of an item without
\* channelId, with addresses found but fewer than 100, and the fallback is
\* at the request of its second query.
C14_Witness ==
  /\ pc = "duckduckgo"
  /\ query_idx = 2
  /\ item_idx > 0
  /\ items[item_idx] = MissingChannelId
  /\ emails_found > 0

\* a is a subsequence of b
RECURSIVE IsSubsequence(_, _)
IsSubsequence(a, b) ==
  IF a = <<>> THEN TRUE
  ELSE IF b = <<>> THEN FALSE
  ELSE IF Head(a) = Head(b) THEN IsSubsequence(Tail(a), Tail(b))
  ELSE IsSubsequence(a, Tail(b))

\* the channel URLs of the search answers of a list of queries, in the order
\* of the queries and of the items of each answer (of an answer with an item
\* that lacks channelId only the items before that one are ever built, and
\* they are items of the full answer too)
RECURSIVE DiscoveryOrder(_)
DiscoveryOrder(queries) ==
  IF queries = <<>> THEN <<>>
  ELSE [i \in 1..Len(SearchItems[Head(queries)]) |->
          CanonicalUrl(SearchItems[Head(queries)][i])]
       \o DiscoveryOrder(Tail(queries))

\* where the run is during the primary phase
PrimaryPhase ==
  {"run", "search", "backoff", "channel_get", "page_get", "page_sleep", "query_sleep"}

\* C15: the records of the result list are in discovery order: their
\* channels are, in this order, among the results of the queries searched so
\* far taken query by query and result by result; the list returned by a
\* query grows only at its end, by the profile of the result at hand; the
\* result list grows only at its end, by the list a query returns; and the
\* rows of the file are the records of the result list in its order.
C15_DiscoveryOrder ==
  /\ [](/\ IsSubsequence(UrlsOfRecords(channels_data),
                         DiscoveryOrder(SubSeq(search_queries, 1,
                            IF pc \in PrimaryPhase /\ query_idx < Len(search_queries)
                            THEN query_idx ELSE Len(search_queries))))
        /\ pc = "done" =>
             /\ Len(csvfile) = Len(channels_data) + 1
             /\ \A i \in 1..Len(channels_data) :
                  csvfile[i + 1][2] = channels_data[i].channel_url)
  /\ [][ /\ IsPrefix(channels_data, channels_data')
         /\ channels_data' # channels_data =>
              /\ IsPrefix(channels_data \o Truthy(channels), channels_data')
              /\ Len(channels_data') <= Len(channels_data) + Len(Truthy(channels)) + 1
         /\ \/ channels' = channels
            \/ channels' = <<>>
            \/ /\ Len(channels') = Len(channels) + 1
               /\ IsPrefix(channels, channels')
               /\ LET c == channels'[Len(channels')]
                  IN c # None => c.channel_url = CanonicalUrl(items[item_idx])
       ]_vars

\* C15 witness: the run has ended with every result of both queries built:
\* the records are those of the first query, then those of the second, each
\* in the order of the search answer.
C15_Witness ==
  /\ pc = "done"
  /\ search_queries = <<"viajes", "cocina">>
  /\ UrlsOfRecords(channels_data)
       = <<CanonicalUrl("UCc"), CanonicalUrl("UCa"), CanonicalUrl("UCa"),
           CanonicalUrl("UCb"), CanonicalUrl("UCc")>>
  /\ csvfile[3][2] = CanonicalUrl("UCa")

\* C20: one page request of a build is never followed by the next page
\* request without a sleep between them.
C20_PauseBetweenFetches ==
  [][ ~(pc = "page_get" /\ pc' = "page_get") ]_vars

\* the primary phase and the fallback phase
PrimaryPcs == {"run", "search", "backoff", "channel_get", "page_get", "page_sleep",
               "query_sleep"}
FallbackPcs == {"fallback_check", "fallback", "duckduckgo", "socialblade", "fallback_sleep"}

\* C22: run terminates, whatever the outcomes of its requests, with the
\* results written; the file is written in one step only, the last of the
\* run, which follows the end of the fallback phase (or of the primary phase
\* when there is no fallback); the primary phase is never entered again
\* after it has ended, and nothing happens after the write.
C22_TerminatesWrittenOnce ==
  /\ <>(pc = "done")
  /\ [][ /\ csvfile' # csvfile => (pc = "save" /\ pc' = "done" /\ csvfile = <<>>)
         /\ pc' = "done" => (pc = "save" /\ Len(csvfile') = Len(channels_data) + 1)
         /\ pc' = "save" => pc \in {"fallback_check", "fallback"}
         /\ pc \in FallbackPcs => pc' \in FallbackPcs \cup {"save"}
         /\ pc' \in FallbackPcs => pc \in PrimaryPcs \cup FallbackPcs
         /\ pc # "done"
       ]_vars

\* C22 witness: run has ended after a first query, then two failed attempts
\* of the second query, an answer at the third with an item without
\* channelId, and the fallback over both queries.
C22_Witness ==
  /\ pc = "done"
  /\ search_queries = <<"cocina", "viajes">>
  /\ attempt = 2
  /\ item_idx = 2
  /\ items[item_idx] = MissingChannelId
  /\ query_idx = 3
  /\ Len(csvfile) = Len(channels_data) + 1

\* C21: when the results are written, and once they are, the budget is the
\* sum of the sizes of the email sets of the records of the result list.
C21_BudgetIsSumOfSavedRecords ==
  pc \in {"save", "done"} => emails_found = SumEmailCounts(channels_data)

\* r is an HTTP error answer that names no quota reason: a 403 without
\* one, or another error status
IsOtherHttpError(r) ==
  /\ r # None
  /\ r.kind = "response"
  /\ r.status >= 400
  /\ ~NamesQuotaReason(r)

\* C23: a search request answered 403 without a quota reason, or with
\* another error status, is a failed attempt like any other: at attempts 1
\* and 2 it is followed by the sleep of attempt * 5 and by the next attempt
\* of the same query, with nothing returned; at attempt 3 the query ends
\* without channels.  A query left before its third attempt with an error
\* answer was left for a quota reason.
C23_OtherErrorsRetried ==
  [][ /\ (pc = "search" /\ IsOtherHttpError(response')) =>
           IF attempt < 2
           THEN /\ pc' = "backoff"
                /\ wait_time' = (attempt + 1) * 5
                /\ attempt' = attempt
                /\ channels_data' = channels_data
           ELSE /\ pc' = "query_sleep"
                /\ channels_data' = channels_data
      /\ (pc = "backoff" /\ IsOtherHttpError(response)) =>
           /\ pc' = "search"
           /\ attempt' = attempt + 1
           /\ query_idx' = query_idx
           /\ attempt' <= 2
      /\ (pc = "search" /\ pc' = "query_sleep" /\ attempt < 2
            /\ response'.kind = "response" /\ response'.status >= 400) =>
           NamesQuotaReason(response')
    ]_vars

\* C23 witness: the second attempt of a query was answered 403 with the
\* reason forbidden, and the run sleeps 10 before the third.
C23_Witness ==
  /\ pc = "backoff"
  /\ attempt = 1
  /\ wait_time = 10
  /\ response # None
  /\ response.kind = "response"
  /\ response.status = 403
  /\ response.has_error
  /\ response.errors = <<"forbidden">>

\* C24: from the fallback test of run on, whatever the backends answer, no
\* step changes the result list or the budget, builds a profile or starts
\* one.
C24_FallbackAddsNothing ==
  [][ (pc \in FallbackPcs) =>
        (/\ channels_data' = channels_data
         /\ emails_found' = emails_found
         /\ channel_data' = channel_data
         /\ channels' = channels
         /\ pc' \in FallbackPcs \cup {"save"})
    ]_vars

\* C24 witness: the fallback has queried both backends for the first of two
\* queries, after a primary phase that collected records.
C24_Witness ==
  /\ pc = "fallback_sleep"
  /\ query_idx = 1
  /\ Len(search_queries) = 2
  /\ channels_data # <<>>
  /\ emails_found > 0

(***************************************************************************)
(* Properties of the extractor (SpecExtract)                               *)
(***************************************************************************)
LinkFields ==
  {"instagram", "twitter", "facebook", "tiktok", "twitch", "discord", "linkedin",
   "website"}

\* the markers of the platforms and of youtube and google
KnownMarkers ==
  {"instagram.com", "twitter.com", "x.com", "facebook.com", "tiktok.com",
   "twitch.tv", "discord", "linkedin.com", "youtube.com", "youtu.be", "google.com"}

HasKnownMarker(url) == \E m \in KnownMarkers : Contains(Lower(url), m)

\* C5: while one record is built, a link field that is not empty keeps its
\* value, whatever url is classified next, in the same text or a later one.
C5_FirstWins ==
  [][ \A f \in LinkFields :
        channel_data[f] # "" => channel_data'[f] = channel_data[f] ]_vars

\* C6: website changes only from empty, and only to the url being
\* classified when that url has no known marker; and a url without a known
\* marker classified while website is empty is stored.
C6_WebsiteNeverPlatform ==
  [][ /\ channel_data'.website # channel_data.website =>
           /\ channel_data.website = ""
           /\ found_urls # <<>>
           /\ ~HasKnownMarker(Head(found_urls))
           /\ channel_data'.website = FullUrl(Head(found_urls))
      /\ (found_urls # <<>> /\ channel_data.website = ""
            /\ ~HasKnownMarker(Head(found_urls))) =>
           channel_data'.website = FullUrl(Head(found_urls))
    ]_vars

\* C7: when a text has been applied to the record, applying the same text
\* again changes no field.
C7_Idempotent ==
  (sources > 0 /\ found_urls = <<>>) =>
    extract_contacts_from_text(channel_data, text) = channel_data

\* C8: every address of the record is lower-case and has none of
\* example.com, yourdomain, test in it; so two matches that differ in case
\* are one element, and a first text with a@b.com and bad@example.com gives
\* exactly {a@b.com}.
C8_EmailsNormalised ==
  /\ \A e \in channel_data.emails :
       /\ e = Lower(e)
       /\ \A x \in {"example.com", "yourdomain", "test"} : ~Contains(e, x)
  /\ (sources = 1 /\ text = "a@b.com bad@example.com") =>
       channel_data.emails = {"a@b.com"}
  /\ (sources = 1 /\ text = "A@B.COM a@b.com") =>
       channel_data.emails = {"a@b.com"}

\* C8 witness: the record has been fed the links page, whose three
\* addresses C@D.es, QA@Latest.io, me@yourdomain.org leave one element, and
\* before it a text with A@B.COM and bad@example.com.
C8_Witness ==
  /\ sources = 2
  /\ text = LinksPage
  /\ found_urls = <<>>
  /\ channel_data.emails = {"a@b.com", "c@d.es"}

(***************************************************************************)
(* Properties of save_to_csv (SpecSave)                                    *)
(***************************************************************************)
\* the columns of the file, in order
Columns ==
  <<"channel_name", "channel_url", "handle", "subscriber_count", "emails",
    "instagram", "twitter", "facebook", "tiktok", "twitch", "discord", "linkedin",
    "website", "description">>

\* a is before b in the order of str: at the first position at which they
\* differ a has ended, or has the smaller code point
StrBefore(a, b) ==
  \E d \in 1..(Len(a) + 1) :
    /\ d <= Len(b)
    /\ SubSeq(a, 1, d - 1) = SubSeq(b, 1, d - 1)
    /\ \/ d = Len(a) + 1
       \/ CodePoint(Ch(a, d)) < CodePoint(Ch(b, d))

\* the pieces of s between the separators ", ", from position i on, the
\* piece in progress starting at position start
RECURSIVE PiecesFrom(_, _, _)
PiecesFrom(s, i, start) ==
  IF i > Len(s) THEN <<SubSeq(s, start, Len(s))>>
  ELSE IF i < Len(s) /\ SubSeq(s, i, i + 1) = ", "
       THEN <<SubSeq(s, start, i - 1)>> \o PiecesFrom(s, i + 2, i + 2)
       ELSE PiecesFrom(s, i + 1, start)

\* col is the addresses of emails, each once, in the order of str, with
\* ", " between them; the empty string for no address
IsSortedJoin(col, emails) ==
  IF emails = {} THEN col = ""
  ELSE LET pieces == PiecesFrom(col, 1, 1)
       IN /\ Len(pieces) = Cardinality(emails)
          /\ { pieces[j] : j \in 1..Len(pieces) } = emails
          /\ \A j \in 1..(Len(pieces) - 1) : StrBefore(pieces[j], pieces[j + 1])

\* col is the first 500 characters of description
IsCapped(col, description) ==
  /\ IsPrefix(col, description)
  /\ Len(col) = IF Len(description) < 500 THEN Len(description) ELSE 500

\* row is the row of record r in the columns other than emails and
\* description: the value of the field, the empty string for a field r has
\* not
PlainColumnsOf(row, r) ==
  /\ Len(row) = 14
  /\ \A k \in (1..14) \ {5, 14} :
       row[k] = IF Columns[k] \in DOMAIN r THEN r[Columns[k]] ELSE ""

\* the records of the list that lack emails or description
LackEmailsOrDescription ==
  { i \in 1..Len(channels_data) :
      "emails" \notin DOMAIN channels_data[i] \/ "description" \notin DOMAIN channels_data[i] }

HasOtherLinks == \E k \in 1..Len(infile[1]) : infile[1][k] = "other_links"

\* the position (1-based) of the first column other_links of the header
FirstOtherLinks ==
  CHOOSE k \in 1..Len(infile[1]) :
    infile[1][k] = "other_links" /\ \A j \in 1..(k - 1) : infile[1][j] # "other_links"

\* out is header without its columns other_links, the others in order
HeaderWithout(out, header) ==
  /\ Len(out) = Cardinality({ j \in 1..Len(header) : header[j] # "other_links" })
  /\ \A k \in 1..Len(header) :
       header[k] # "other_links" =>
         out[Cardinality({ j \in 1..k : header[j] # "other_links" })] = header[k]

\* out is row without its field at position p (1-based)
RemovedAt(out, row, p) ==
  /\ Len(out) = Len(row) - 1
  /\ \A k \in 1..Len(out) : out[k] = IF k < p THEN row[k] ELSE row[k + 1]

\* C17: after clean_csv and after remove_other_links_simple, for a header
\* with other_links at index i (0-based) the output header is the input
\* header without other_links and every row of at least i + 1 fields is
\* written, at its place, without exactly its field at index i (header
\* [a, other_links, b] and row [1,2,3] give [a, b] and [1,3]); for a header
\* without other_links the output file equals the input file.
C17_ColumnRemoved ==
  pc \in {"cleaned", "removed"} =>
    IF HasOtherLinks
    THEN /\ Len(outfile) = Len(infile)
         /\ HeaderWithout(outfile[1], infile[1])
         /\ \A k \in 2..Len(infile) :
              /\ Len(infile[k]) >= FirstOtherLinks =>
                   RemovedAt(outfile[k], infile[k], FirstOtherLinks)
              /\ (infile[1] = <<"a", "other_links", "b">> /\ infile[k] = <<"1", "2", "3">>) =>
                   (outfile[1] = <<"a", "b">> /\ outfile[k] = <<"1", "3">>)
    ELSE outfile = infile

\* C17 witness: clean_csv has run on header [a, other_links, b] with the
\* rows [1,2,3] and [1,2,3,4].
C17_Witness ==
  /\ pc = "cleaned"
  /\ infile = << <<"a", "other_links", "b">>, <<"1", "2", "3">>, <<"1", "2", "3", "4">> >>
  /\ outfile = << <<"a", "b">>, <<"1", "3">>, <<"1", "3", "4">> >>

\* C18 as stated: every data row shorter than the header is written, at its
\* place, unchanged.
C18_ShortRowsUnchanged ==
  pc \in {"cleaned", "removed"} =>
    /\ Len(outfile) = Len(infile)
    /\ \A k \in 2..Len(infile) :
         Len(infile[k]) < Len(infile[1]) => outfile[k] = infile[k]

\* C18, amended: every data row shorter than the header is written, at its
\* place, never rejected: unchanged when the header has no other_links or
\* the row has no field at the index of other_links, and otherwise without
\* its field at that index.
C18_ShortRowsKept ==
  pc \in {"cleaned", "removed"} =>
    /\ Len(outfile) = Len(infile)
    /\ \A k \in 2..Len(infile) :
         Len(infile[k]) < Len(infile[1]) =>
           IF HasOtherLinks /\ Len(infile[k]) >= FirstOtherLinks
           THEN RemovedAt(outfile[k], infile[k], FirstOtherLinks)
           ELSE outfile[k] = infile[k]

\* C18 witness: remove_other_links_simple has run on header
\* [a, other_links, b] with the short rows [1] and [1,2]: the first is
\* unchanged, the second has lost its field at index 1.
C18_Witness ==
  /\ pc = "removed"
  /\ infile = << <<"a", "other_links", "b">>, <<"1">>, <<"1", "2">> >>
  /\ outfile = << <<"a", "b">>, <<"1">>, <<"1">> >>

\* s as a whole is  local@domain.tld : a local part of the characters
\* a-z A-Z 0-9 . _ % + -, one "@", a domain of a-z A-Z 0-9 . -, a ".", and
\* two or more letters
StrictShape(s) ==
  \E a \in 2..Len(s), d \in 4..(Len(s) - 2) :
    /\ a + 1 < d
    /\ Ch(s, a) = "@"
    /\ Ch(s, d) = "."
    /\ \A k \in 1..(a - 1) : Ch(s, k) \in LocalChars
    /\ \A k \in (a + 1)..(d - 1) : Ch(s, k) \in DomainChars
    /\ \A k \in (d + 1)..Len(s) : Ch(s, k) \in UpperLetters \cup LowerLetters

\* some field of row, as a whole and without the whitespace around it, is
\* an address
WholeFieldIsEmail(row) == \E k \in 1..Len(row) : StrictShape(Strip(row[k]))

\* some field of row has a match of the scanning pattern that is, as a
\* whole, an address
MatchIsEmail(row) ==
  \E k \in 1..Len(row) :
    \E m \in 1..Len(FindEmails(row[k])) : StrictShape(FindEmails(row[k])[m])

\* out is row as written under header: one field per column, that of the
\* last column of the same name the row reaches, empty for none
WrittenAs(out, row, header) ==
  /\ Len(out) = Len(header)
  /\ \A k \in 1..Len(header) :
       LET same == { j \in 1..Len(header) : j <= Len(row) /\ header[j] = header[k] }
       IN IF same = {} THEN out[k] = ""
          ELSE \E j \in same : out[k] = row[j] /\ \A i \in same : i <= j

\* the output file is the header and then the rows of kept, in order
OutputIs(kept) ==
  /\ Len(outfile) = Len(kept) + 1
  /\ outfile[1] = infile[1]
  /\ \A k \in 1..Len(kept) : WrittenAs(outfile[k + 1], kept[k], infile[1])

\* C19 as stated: after filter_csv the output holds the data rows of which
\* a field as a whole is an address, and no other row.
C19_WholeFieldKept ==
  pc = "filtered" =>
    OutputIs(SelectSeq(SubSeq(infile, 2, Len(infile)), WholeFieldIsEmail))

\* C19, amended: after filter_csv the output holds, in order, the data rows
\* of which a field contains a match of the scanning pattern that as a whole
\* is an address, and no other row: a row is kept for an address inside
\* longer text, and a row whose scanning matches all fail the strict pattern
\* is left out.
C19_MatchKept ==
  pc = "filtered" =>
    OutputIs(SelectSeq(SubSeq(infile, 2, Len(infile)), MatchIsEmail))

\* C19 witness: filter_csv has run on a row with an address inside longer
\* text, which it kept, and a row whose only scanning match a@b.com|x is no
\* address, which it left out.
C19_Witness ==
  /\ pc = "filtered"
  /\ infile = << <<"a", "b">>, <<"Ana", "Contacto: a@b.com">>, <<"sin correo", "a@b.com|x">> >>
  /\ outfile = << <<"a", "b">>, <<"Ana", "Contacto: a@b.com">> >>

=============================================================================
